---------------------------- MODULE Spec2Model ----------------------------
(***************************************************************************)
(* RouteRunner: the session controller (Index page), the map component     *)
(* with its live distance tracker (Map), and the geometric route           *)
(* synthesizer (mapUtils).                                                 *)
(*                                                                         *)
(* Units.  Distances are integers in thousandths of a mile.  Coordinates   *)
(* lie on one meridian: a latitude is an integer number of 1/69000 degree  *)
(* (the step generatePointAtDistance makes for one thousandth of a mile,   *)
(* milesPerDegree = 69), the longitude is the origin's.  On a meridian     *)
(* the Haversine formula reduces to R * |dLat|, which is what              *)
(* calculateDistance computes below, followed by its toFixed(2).           *)
(*                                                                         *)
(* Rendering.  The handlers of Index are closures of the render that       *)
(* created them.  A click handler's state updates are rendered, and the    *)
(* effects of that render run, before the next event (discrete events are  *)
(* flushed synchronously).  State updates made from a timer callback or a  *)
(* geolocation callback are rendered by a later task: Render is a separate *)
(* action, and callbacks may run before it.                                *)
(***************************************************************************)
EXTENDS Integers, Sequences, FiniteSets, TLC

\* null / undefined, by the type of the value it stands in for
NoHandle == -1                 \* a ref holding null instead of a timer or watch handle
NoPoint == [none |-> TRUE]     \* null instead of a { lat, lng }
NoRoute == -1                  \* activeRouteId undefined
NoDistance == -1               \* no distance computed

Abs(x) == IF x < 0 THEN 0 - x ELSE x

(***************************************************************************)
(* Bounds of the model.                                                    *)
(***************************************************************************)
MaxAcc == 150         \* cap on accumulatedDistance (thousandths of a mile)
MaxDuration == 1      \* cap on runningDuration (seconds)
MaxSessions == 2      \* cap on the number of tracking sessions started
MaxNotify == 2        \* cap on the target-reached notifications counted per session
MaxWatchHandle == 2   \* watchPosition returns a handle in 0..MaxWatchHandle
MaxTimerHandle == 2   \* setInterval returns a handle in 1..MaxTimerHandle

Origin == [lat |-> 0, lng |-> 0]

\* the latitudes the positioning service reports: 0.045 and 0.100 miles north
\* of the origin, so that segments of 0.05, 0.06 and exactly 0.10 miles occur
Latitudes == {0, 45, 100}
Positions == { [lat |-> l, lng |-> Origin.lng] : l \in Latitudes }

SubmitDistances_unclamped == {0, 100}

\* the distance the DistanceInput control submits (0.1 miles, its minimum)
SubmitDistances == {100}

(***************************************************************************)
(* Geodesy (locationUtils.ts)                                              *)
(***************************************************************************)
\* number.toFixed(2) of a distance given as the fraction num/den of a
\* thousandth of a mile: the nearest hundredth of a mile, in thousandths
toFixed2(num, den) == ((num + 5 * den) \div (10 * den)) * 10

\* R = 3958.8 miles, so one degree of latitude is R * pi / 180 = 69.0936 miles
\* and one latitude unit (1/69000 degree) is 690936/690000 thousandths of a mile;
\* the result is parseFloat(distance.toFixed(2))
calculateDistance_signed(lat1, lon1, lat2, lon2) ==
    toFixed2((lat2 - lat1) * 690936, 690000)

calculateDistance(lat1, lon1, lat2, lon2) ==
    toFixed2(Abs(lat2 - lat1) * 690936, 690000)

(***************************************************************************)
(* Geometric route synthesizer (mapUtils)                                  *)
(***************************************************************************)
\* Math.random() * 2 * PI restricted to the two angles that stay on the
\* meridian: 0 (cos = 1) and PI (cos = -1); sin = 0 for both
Angles == {1, -1}

\* 0.95 + Math.random() * 0.1, in thousandths
VariationFactors == {950, 1000, 1040}

colors == <<"#1EAEDB", "#4CD964", "#9b87f5">>
descriptions == <<"Loop around nearby area", "Scenic neighborhood route", "Discover new paths">>

generatePointAtDistance(centerLat, centerLng, distance, cosAngle) ==
    [lat |-> centerLat + cosAngle * distance, lng |-> centerLng]

Max(a, b) == IF a >= b THEN a ELSE b

numWaypoints_short(targetDistance) == Max(2, (targetDistance * 3) \div 1000)

\* Math.max(3, Math.floor(targetDistance * 3))
numWaypoints(targetDistance) == Max(3, (targetDistance * 3) \div 1000)

\* the for loop of generateRoute: i = 0 .. numWaypoints - 2, one hop each;
\* angles[k] is the random angle of hop k
RECURSIVE walk(_, _, _, _, _, _)
walk(points, currentLat, currentLng, intervalDistance, angles, k) ==
    IF k > Len(angles) THEN points
    ELSE LET point == generatePointAtDistance(currentLat, currentLng, intervalDistance, angles[k])
         IN  walk(Append(points, point), point.lat, point.lng, intervalDistance, angles, k + 1)

generateRoute(startLat, startLng, targetDistance, angles) ==
    LET intervalDistance == targetDistance \div numWaypoints(targetDistance)
        routePoints == walk(<<[lat |-> startLat, lng |-> startLng]>>, startLat, startLng,
                            intervalDistance, angles, 1)
    IN  Append(routePoints, [lat |-> startLat, lng |-> startLng])

\* sum of the great-circle distances between consecutive points
RECURSIVE pathDistance(_)
pathDistance(points) ==
    IF Len(points) < 2 THEN 0
    ELSE calculateDistance(points[1].lat, points[1].lng, points[2].lat, points[2].lng)
         + pathDistance(Tail(points))

\* the random outcomes one loop iteration of generateRouteOptions consumes:
\* the variation factor and one angle per hop
RandomDraws(targetDistance, factors, angleSet) ==
    UNION { { [factor |-> f, angles |-> a] :
                a \in [1..(numWaypoints((targetDistance * f) \div 1000) - 1) -> angleSet] } :
            f \in factors }

\* body of the for loop of generateRouteOptions for index i (0-based)
makeRoute(startLat, startLng, targetDistance, i, draw) ==
    LET adjustedDistance == (targetDistance * draw.factor) \div 1000
        routePoints == generateRoute(startLat, startLng, adjustedDistance, draw.angles)
    IN  [id |-> i,
         points |-> routePoints,
         distance |-> adjustedDistance,
         description |-> descriptions[(i % Len(descriptions)) + 1],
         color |-> colors[(i % Len(colors)) + 1]]

generateRouteOptions_paletteOnly(startLat, startLng, targetDistance, numRoutes, draws) ==
    [k \in 1..(IF numRoutes <= Len(colors) THEN numRoutes ELSE Len(colors)) |->
        makeRoute(startLat, startLng, targetDistance, k - 1, draws[k])]

\* generateRouteOptions(startLat, startLng, targetDistance, numRoutes) for
\* the sequence draws of random outcomes, one per route
generateRouteOptions(startLat, startLng, targetDistance, numRoutes, draws) ==
    [k \in 1..numRoutes |-> makeRoute(startLat, startLng, targetDistance, k - 1, draws[k])]

\* default value of the numRoutes parameter
DefaultNumRoutes == 3

(***************************************************************************)
(* State                                                                   *)
(*                                                                         *)
(* isLoading and isPanelCollapsed of Index, and loading and mapLoaded of   *)
(* Map, only drive presentation (spinner, panel CSS class, route layers)   *)
(* and are left out; of the toasts only toast.error is recorded, the       *)
(* target-reached toast and vibration are counted in notifyCount.          *)
(***************************************************************************)
VARIABLES
    \* Index (session controller)
    currentLocation,     \* NoPoint until the one-shot location fetch succeeds
    fetchLocation,       \* "pending" | "done" | "failed": the mount effect's promise
    routes,              \* sequence of Route records
    activeRouteId,       \* NoRoute (undefined) or a route id
    showRoutePanel,
    isRunningMode,
    targetDistance,
    currentDistance,
    runningDuration,
    hasReachedTarget,
    timerRef,            \* timerRef.current: NoHandle (null) or an interval handle
    timers,              \* the interval timers that are live in the browser
    renderPending,       \* a state update of Index has not been rendered yet
    mounted,
    toastError,          \* the most recent toast.error message, "" before the first
    \* Map
    mapToken,            \* "placeholder" (YOUR_MAPBOX_TOKEN_HERE) | "token"
    initializeMap,       \* "idle" | "fetching" | "done" | "failed"
    map,                 \* map.current is set
    watchId,             \* watchId.current: NoHandle (null) or a watch handle
    watches,             \* live geolocation watches: handle -> closure of the callback
    trackingCleanup,     \* the last run of the tracking effect returned a cleanup
    lastPosition,        \* lastPosition.current: NoPoint (null) or a point
    accumulatedDistance, \* accumulatedDistance.current
    segmentDistance,     \* the segmentDistance the last watch callback computed, or NoDistance
    \* observers
    session,             \* number of tracking sessions started so far
    notifyCount,         \* target-reached notifications (vibration + toast) since session start
    refLast,             \* last sample delivered in the running session, NoPoint before the first
    \* utilities studied on their own
    call,                \* the last call of a synchronous utility: function, arguments, outcome
    svc,                 \* the service-assisted generateRouteOptions: one asynchronous call
    distanceInput        \* the DistanceInput component: its state and what it last submitted

indexVars == <<currentLocation, fetchLocation, routes, activeRouteId, showRoutePanel,
               isRunningMode, targetDistance, currentDistance, runningDuration,
               hasReachedTarget, timerRef, timers, renderPending, mounted, toastError>>
mapVars == <<mapToken, initializeMap, map, watchId, watches, trackingCleanup,
             lastPosition, accumulatedDistance, segmentDistance>>
obsVars == <<session, notifyCount, refLast>>
utilVars == <<call, svc, distanceInput>>
vars == <<indexVars, mapVars, obsVars, utilVars>>

EmptyWatches == [h \in {} |-> FALSE]

\* no utility has been called
NoCall == [fn |-> "", args |-> <<>>, outcome |-> "", result |-> <<>>]

\* the service-assisted generateRouteOptions has not been called
\*   pc            "idle" | "outbound" | "return" | "done": the await the call is at
\*   i             the index of the for loop
\*   attempts      the nested calls of fetchRouteFromMapbox for route i, outermost
\*                 first, each with its directionBias (degrees), its targetDistance
\*                 and the error its catch block caught ("" if none so far)
\*   points        the outbound polyline of the innermost call
\*   returned      the value the last fetchRouteFromMapbox of the loop resolved with
\*   routes        the routes pushed so far
\*   storedToken   localStorage.getItem('mapbox_token'), "" for null
\*   inFlight      the requests sent to the directions provider and not yet settled
SvcIdle == [pc |-> "idle", targetDistance |-> 0, numRoutes |-> 0, i |-> 0,
            attempts |-> <<>>, points |-> <<>>, returned |-> <<>>, routes |-> <<>>,
            storedToken |-> "", inFlight |-> {}]

\* DistanceInput after its first render: useState(1.0), useState(false);
\* text is the value of the last change event of the number field ("" if the
\* last change came from the slider or there was none), submitted the
\* arguments of the last onDistanceSubmit call (<<>> if there was none)
DistanceInputMounted ==
    [distance |-> 1000, isTargetMode |-> FALSE, text |-> "", submitted |-> <<>>]

Init ==
    /\ currentLocation = NoPoint
    /\ fetchLocation = "pending"
    /\ routes = <<>>
    /\ activeRouteId = NoRoute
    /\ showRoutePanel = TRUE
    /\ isRunningMode = FALSE
    /\ targetDistance = 0
    /\ currentDistance = 0
    /\ runningDuration = 0
    /\ hasReachedTarget = FALSE
    /\ timerRef = NoHandle
    /\ timers = {}
    /\ renderPending = FALSE
    /\ mounted = TRUE
    /\ toastError = ""
    /\ mapToken = "placeholder"
    /\ initializeMap = "idle"
    /\ map = FALSE
    /\ watchId = NoHandle
    /\ watches = EmptyWatches
    /\ trackingCleanup = FALSE
    /\ lastPosition = NoPoint
    /\ accumulatedDistance = 0
    /\ segmentDistance = NoDistance
    /\ session = 0
    /\ notifyCount = 0
    /\ refLast = NoPoint
    /\ call = NoCall
    /\ svc = SvcIdle
    /\ distanceInput = DistanceInputMounted

(***************************************************************************)
(* Map: the tracking effect (deps [isTracking, onLocationUpdate])          *)
(***************************************************************************)
\* JavaScript truthiness of a ref holding null or a number
Truthy(h) == h # NoHandle /\ h # 0

\* The handle a new timer or watch gets, among the free ones: positive handles
\* are interchangeable, so the least stands for all of them; 0 is kept apart
\* because the code tests handles for truthiness.
FreshHandles(free) == { h \in free : h = 0 \/ \A g \in free : g = 0 \/ h <= g }

\* if (watchId.current) { clearWatch(watchId.current); watchId.current = null; }
clearWatchId(wid) == IF Truthy(wid) THEN NoHandle ELSE wid
clearWatches(wid, ws) ==
    IF Truthy(wid) THEN [h \in (DOMAIN ws) \ {wid} |-> ws[h]] ELSE ws

\* One commit of Index re-creates handleLocationUpdate, so the tracking effect
\* of Map runs again: first the cleanup the previous run returned, then the
\* body with the isTracking prop and the new handleLocationUpdate closure.
TrackingEffect(isTracking, closure) ==
    LET wid1 == IF trackingCleanup THEN clearWatchId(watchId) ELSE watchId
        ws1  == IF trackingCleanup THEN clearWatches(watchId, watches) ELSE watches
    IN  IF ~map \/ ~isTracking
        THEN /\ watchId' = clearWatchId(wid1)
             /\ watches' = clearWatches(wid1, ws1)
             /\ trackingCleanup' = FALSE
             /\ accumulatedDistance' = accumulatedDistance
        ELSE /\ accumulatedDistance' = 0
             \* watchPosition returns a long that identifies the watch; 0 is one
             /\ \E h \in FreshHandles((0..MaxWatchHandle) \ DOMAIN ws1) :
                   /\ watchId' = h
                   /\ watches' = [x \in (DOMAIN ws1) \cup {h} |->
                                     IF x = h THEN closure ELSE ws1[x]]
             /\ trackingCleanup' = TRUE

\* the values handleLocationUpdate captures from the render that created it
Closure(hrt, target, sess) ==
    [hasReachedTarget |-> hrt, targetDistance |-> target, session |-> sess]

(***************************************************************************)
(* Index: timer                                                            *)
(***************************************************************************)
\* if (timerRef.current) window.clearInterval(timerRef.current);
startTimer_clear(ref, live) == IF Truthy(ref) THEN live \ {ref} ELSE live

\* window.setInterval returns a handle greater than zero (HTML timers) that
\* no live timer has
startTimer ==
    LET live == startTimer_clear(timerRef, timers)
    IN  \E t \in FreshHandles((1..MaxTimerHandle) \ live) :
            /\ timerRef' = t
            /\ timers' = live \cup {t}

handleStopRun_noClear(ref, live) == live

\* handleStopRun: if (timerRef.current) { clearInterval(...); timerRef.current = null; }
handleStopRun_clear(ref, live) == IF Truthy(ref) THEN live \ {ref} ELSE live

(***************************************************************************)
(* Index: mount effect (fetchLocation)                                     *)
(***************************************************************************)
FetchLocationOk ==
    /\ mounted /\ fetchLocation = "pending"
    /\ fetchLocation' = "done"
    /\ currentLocation' = Origin
    /\ renderPending' = FALSE
    /\ TrackingEffect(isRunningMode, Closure(hasReachedTarget, targetDistance, session))
    /\ UNCHANGED <<routes, activeRouteId, showRoutePanel, isRunningMode, targetDistance,
                   currentDistance, runningDuration, hasReachedTarget, timerRef, timers,
                   mounted, toastError>>
    /\ UNCHANGED <<mapToken, initializeMap, map, lastPosition, segmentDistance>>
    /\ UNCHANGED obsVars
    /\ UNCHANGED utilVars

FetchLocationFail ==
    /\ mounted /\ fetchLocation = "pending"
    /\ fetchLocation' = "failed"
    /\ toastError' = "Failed to get your location"
    /\ UNCHANGED <<currentLocation, routes, activeRouteId, showRoutePanel, isRunningMode,
                   targetDistance, currentDistance, runningDuration, hasReachedTarget,
                   timerRef, timers, renderPending, mounted>>
    /\ UNCHANGED mapVars
    /\ UNCHANGED obsVars
    /\ UNCHANGED utilVars

(***************************************************************************)
(* Index: handleDistanceSubmit, route selection, start and stop            *)
(***************************************************************************)
\* the branch handleDistanceSubmit takes, with the location check moved into
\* the route-finding branch (the only one that reads currentLocation)
handleDistanceSubmit_lateCheck(location, isTargetDistance) ==
    IF isTargetDistance THEN "target"
    ELSE IF location = NoPoint THEN "error" ELSE "routes"

\* the branch handleDistanceSubmit takes: the location check comes first
handleDistanceSubmit_branch(location, isTargetDistance) ==
    IF location = NoPoint THEN "error"
    ELSE IF isTargetDistance THEN "target" ELSE "routes"

\* if (!currentLocation) { toast.error(...); return; }
handleDistanceSubmit_noLocation ==
    /\ mounted /\ ~isRunningMode
    /\ \E isTargetDistance \in BOOLEAN :
          handleDistanceSubmit_branch(currentLocation, isTargetDistance) = "error"
    /\ toastError' = "Location not available"
    /\ UNCHANGED <<currentLocation, fetchLocation, routes, activeRouteId, showRoutePanel,
                   isRunningMode, targetDistance, currentDistance, runningDuration,
                   hasReachedTarget, timerRef, timers, renderPending, mounted>>
    /\ UNCHANGED mapVars
    /\ UNCHANGED obsVars
    /\ UNCHANGED utilVars

\* handleDistanceSubmit(distance, true)
handleDistanceSubmit_target(distance) ==
    /\ mounted /\ ~isRunningMode
    /\ handleDistanceSubmit_branch(currentLocation, TRUE) = "target"
    /\ session < MaxSessions
    /\ targetDistance' = distance
    /\ currentDistance' = 0
    /\ runningDuration' = 0
    /\ isRunningMode' = TRUE
    /\ showRoutePanel' = FALSE
    /\ hasReachedTarget' = FALSE
    /\ startTimer
    /\ renderPending' = FALSE
    /\ TrackingEffect(TRUE, Closure(FALSE, distance, session + 1))
    /\ session' = session + 1
    /\ notifyCount' = 0
    /\ refLast' = NoPoint
    /\ UNCHANGED <<currentLocation, fetchLocation, routes, activeRouteId, mounted, toastError>>
    /\ UNCHANGED <<mapToken, initializeMap, map, lastPosition, segmentDistance>>
    /\ UNCHANGED utilVars

handleDistanceSubmit_selectionKept(generatedRoutes, selected) == selected

\* if (generatedRoutes.length > 0) setActiveRouteId(generatedRoutes[0].id):
\* activeRouteId after the route branch, selected being its value before
handleDistanceSubmit_activeRouteId(generatedRoutes, selected) ==
    IF Len(generatedRoutes) > 0 THEN generatedRoutes[1].id ELSE selected

\* handleDistanceSubmit(distance, false); the random outcomes of
\* generateRouteOptions are drawn from factors and angleSet
handleDistanceSubmit_routes(distance, factors, angleSet) ==
    /\ mounted /\ ~isRunningMode
    /\ handleDistanceSubmit_branch(currentLocation, FALSE) = "routes"
    /\ \E draws \in [1..DefaultNumRoutes -> RandomDraws(distance, factors, angleSet)] :
          LET generatedRoutes == generateRouteOptions(currentLocation.lat, currentLocation.lng,
                                                      distance, DefaultNumRoutes, draws)
          IN  /\ routes' = generatedRoutes
              /\ activeRouteId' = handleDistanceSubmit_activeRouteId(generatedRoutes,
                                                                     activeRouteId)
    /\ isRunningMode' = FALSE
    /\ showRoutePanel' = TRUE
    /\ renderPending' = FALSE
    /\ TrackingEffect(FALSE, Closure(hasReachedTarget, targetDistance, session))
    /\ UNCHANGED <<currentLocation, fetchLocation, targetDistance, currentDistance,
                   runningDuration, hasReachedTarget, timerRef, timers, mounted, toastError>>
    /\ UNCHANGED <<mapToken, initializeMap, map, lastPosition, segmentDistance>>
    /\ UNCHANGED obsVars
    /\ UNCHANGED utilVars

\* the route cards are rendered when !isRunningMode && showRoutePanel && routes.length > 0
handleRouteSelect(routeId) ==
    /\ mounted /\ ~isRunningMode /\ showRoutePanel /\ Len(routes) > 0
    /\ \E k \in 1..Len(routes) : routes[k].id = routeId
    /\ activeRouteId # routeId
    /\ activeRouteId' = routeId
    /\ renderPending' = FALSE
    /\ TrackingEffect(isRunningMode, Closure(hasReachedTarget, targetDistance, session))
    /\ UNCHANGED <<currentLocation, fetchLocation, routes, showRoutePanel, isRunningMode,
                   targetDistance, currentDistance, runningDuration, hasReachedTarget,
                   timerRef, timers, mounted, toastError>>
    /\ UNCHANGED <<mapToken, initializeMap, map, lastPosition, segmentDistance>>
    /\ UNCHANGED obsVars
    /\ UNCHANGED utilVars

StartSelectedRoute_keepElapsed ==
    /\ mounted /\ ~isRunningMode /\ showRoutePanel /\ Len(routes) > 0
    /\ activeRouteId # NoRoute
    /\ session < MaxSessions
    /\ \E k \in 1..Len(routes) :
          /\ routes[k].id = activeRouteId
          /\ \A j \in 1..(k - 1) : routes[j].id # activeRouteId
          /\ targetDistance' = routes[k].distance
          /\ TrackingEffect(TRUE, Closure(FALSE, routes[k].distance, session + 1))
    /\ currentDistance' = 0
    /\ runningDuration' = runningDuration
    /\ isRunningMode' = TRUE
    /\ showRoutePanel' = FALSE
    /\ hasReachedTarget' = FALSE
    /\ startTimer
    /\ renderPending' = FALSE
    /\ session' = session + 1
    /\ notifyCount' = 0
    /\ refLast' = NoPoint
    /\ UNCHANGED <<currentLocation, fetchLocation, routes, activeRouteId, mounted, toastError>>
    /\ UNCHANGED <<mapToken, initializeMap, map, lastPosition, segmentDistance>>
    /\ UNCHANGED utilVars

\* onClick of the "Start Selected Route" button, rendered when activeRouteId is set
StartSelectedRoute ==
    /\ mounted /\ ~isRunningMode /\ showRoutePanel /\ Len(routes) > 0
    /\ activeRouteId # NoRoute
    /\ session < MaxSessions
    /\ \E k \in 1..Len(routes) :
          /\ routes[k].id = activeRouteId
          /\ \A j \in 1..(k - 1) : routes[j].id # activeRouteId
          /\ targetDistance' = routes[k].distance
          /\ TrackingEffect(TRUE, Closure(FALSE, routes[k].distance, session + 1))
    /\ currentDistance' = 0
    /\ runningDuration' = 0
    /\ isRunningMode' = TRUE
    /\ showRoutePanel' = FALSE
    /\ hasReachedTarget' = FALSE
    /\ startTimer
    /\ renderPending' = FALSE
    /\ session' = session + 1
    /\ notifyCount' = 0
    /\ refLast' = NoPoint
    /\ UNCHANGED <<currentLocation, fetchLocation, routes, activeRouteId, mounted, toastError>>
    /\ UNCHANGED <<mapToken, initializeMap, map, lastPosition, segmentDistance>>
    /\ UNCHANGED utilVars

\* RunningStats (the End Run button) is rendered when isRunningMode
handleStopRun ==
    /\ mounted /\ isRunningMode
    /\ timers' = handleStopRun_clear(timerRef, timers)
    /\ timerRef' = IF Truthy(timerRef) THEN NoHandle ELSE timerRef
    /\ isRunningMode' = FALSE
    /\ showRoutePanel' = TRUE
    /\ renderPending' = FALSE
    /\ TrackingEffect(FALSE, Closure(hasReachedTarget, targetDistance, session))
    /\ refLast' = NoPoint
    /\ UNCHANGED <<currentLocation, fetchLocation, routes, activeRouteId, targetDistance,
                   currentDistance, runningDuration, hasReachedTarget, mounted, toastError>>
    /\ UNCHANGED <<mapToken, initializeMap, map, lastPosition, segmentDistance>>
    /\ UNCHANGED <<session, notifyCount>>
    /\ UNCHANGED utilVars

(***************************************************************************)
(* Index: the interval callback and the deferred re-render                 *)
(***************************************************************************)
\* setRunningDuration(prev => prev + 1), from any live interval timer
Tick ==
    /\ mounted
    /\ timers # {}
    /\ runningDuration < MaxDuration
    /\ runningDuration' = runningDuration + 1
    /\ renderPending' = TRUE
    /\ UNCHANGED <<currentLocation, fetchLocation, routes, activeRouteId, showRoutePanel,
                   isRunningMode, targetDistance, currentDistance, hasReachedTarget,
                   timerRef, timers, mounted, toastError>>
    /\ UNCHANGED mapVars
    /\ UNCHANGED obsVars
    /\ UNCHANGED utilVars

\* Index renders with the current state and the effects of the commit run
Render ==
    /\ mounted
    /\ renderPending
    /\ renderPending' = FALSE
    /\ TrackingEffect(isRunningMode, Closure(hasReachedTarget, targetDistance, session))
    /\ UNCHANGED <<currentLocation, fetchLocation, routes, activeRouteId, showRoutePanel,
                   isRunningMode, targetDistance, currentDistance, runningDuration,
                   hasReachedTarget, timerRef, timers, mounted, toastError>>
    /\ UNCHANGED <<mapToken, initializeMap, map, lastPosition, segmentDistance>>
    /\ UNCHANGED obsVars
    /\ UNCHANGED utilVars

(***************************************************************************)
(* Map: token, initialisation, the watchPosition callback, unmount         *)
(***************************************************************************)
\* the token effect: a saved token, or the one entered at the prompt, replaces
\* the placeholder; the init effect then runs initializeMap
LoadToken ==
    /\ mounted
    /\ mapToken = "placeholder"
    /\ mapToken' = "token"
    /\ initializeMap' = "fetching"
    /\ UNCHANGED indexVars
    /\ UNCHANGED <<map, watchId, watches, trackingCleanup, lastPosition,
                   accumulatedDistance, segmentDistance>>
    /\ UNCHANGED obsVars
    /\ UNCHANGED utilVars

\* initializeMap after getCurrentPositionPromise resolved with position
initializeMap_ok(position) ==
    /\ mounted
    /\ initializeMap = "fetching"
    /\ initializeMap' = "done"
    /\ map' = TRUE
    /\ lastPosition' = position
    /\ UNCHANGED indexVars
    /\ UNCHANGED <<mapToken, watchId, watches, trackingCleanup, accumulatedDistance,
                   segmentDistance>>
    /\ UNCHANGED obsVars
    /\ UNCHANGED utilVars

\* initializeMap after getCurrentPositionPromise rejected
initializeMap_error ==
    /\ mounted
    /\ initializeMap = "fetching"
    /\ initializeMap' = "failed"
    /\ UNCHANGED indexVars
    /\ UNCHANGED <<mapToken, map, watchId, watches, trackingCleanup, lastPosition,
                   accumulatedDistance, segmentDistance>>
    /\ UNCHANGED obsVars
    /\ UNCHANGED utilVars

handleLocationUpdate_flagAssigned(reached, flag) == reached

\* if (!hasReachedTarget && distance >= targetDistance) setHasReachedTarget(true):
\* the flag after handleLocationUpdate, reached being the value of the condition
handleLocationUpdate_flag(reached, flag) == IF reached THEN TRUE ELSE flag

isReasonable_inclusive(segment) == segment <= 100

\* if (segmentDistance < 0.1)
isReasonable(segment) == segment < 100

\* the success callback of the watch with handle h, called with position;
\* handleLocationUpdate is the closure the watch was subscribed with
WatchCallback(h, position) ==
    /\ mounted
    /\ h \in DOMAIN watches
    /\ LET onLocationUpdate == watches[h]
           hasLast == lastPosition # NoPoint
           seg == IF hasLast
                  THEN calculateDistance(lastPosition.lat, lastPosition.lng,
                                         position.lat, position.lng)
                  ELSE NoDistance
           accepted == hasLast /\ isReasonable(seg)
           distance == IF accepted THEN accumulatedDistance + seg ELSE accumulatedDistance
           reached == accepted /\ ~onLocationUpdate.hasReachedTarget
                               /\ distance >= onLocationUpdate.targetDistance
       IN  /\ distance <= MaxAcc
           /\ segmentDistance' = seg
           /\ accumulatedDistance' = distance
           /\ lastPosition' = position
           \* handleLocationUpdate(latitude, longitude, accumulatedDistance.current)
           /\ currentDistance' = IF accepted THEN distance ELSE currentDistance
           /\ hasReachedTarget' = handleLocationUpdate_flag(reached, hasReachedTarget)
           /\ IF reached
              THEN /\ notifyCount < MaxNotify
                   /\ notifyCount' = notifyCount + 1
              ELSE UNCHANGED notifyCount
           /\ renderPending' = (renderPending \/ currentDistance' # currentDistance
                                              \/ hasReachedTarget' # hasReachedTarget)
    /\ refLast' = IF isRunningMode THEN position ELSE refLast
    /\ UNCHANGED <<currentLocation, fetchLocation, routes, activeRouteId, showRoutePanel,
                   isRunningMode, targetDistance, runningDuration, timerRef, timers, mounted,
                   toastError>>
    /\ UNCHANGED <<mapToken, initializeMap, map, watchId, watches, trackingCleanup>>
    /\ UNCHANGED session
    /\ UNCHANGED utilVars

\* the page is left: the cleanups of Map's effects run (the tracking effect's,
\* if its last run returned one; the init effect's, if it got past its guard);
\* Index registers no cleanup for its interval timer.  What is still live in
\* timers and watches afterwards stays live; the model follows it no further.
Unmount ==
    /\ mounted
    /\ mounted' = FALSE
    /\ LET wid1 == IF trackingCleanup THEN clearWatchId(watchId) ELSE watchId
           ws1  == IF trackingCleanup THEN clearWatches(watchId, watches) ELSE watches
       IN  IF mapToken = "token"
           THEN /\ map' = FALSE
                /\ watchId' = clearWatchId(wid1)
                /\ watches' = clearWatches(wid1, ws1)
           ELSE /\ map' = map
                /\ watchId' = wid1
                /\ watches' = ws1
    /\ trackingCleanup' = FALSE
    /\ UNCHANGED <<currentLocation, fetchLocation, routes, activeRouteId, showRoutePanel,
                   isRunningMode, targetDistance, currentDistance, runningDuration,
                   hasReachedTarget, timerRef, timers, renderPending, toastError>>
    /\ UNCHANGED <<mapToken, initializeMap, lastPosition, accumulatedDistance, segmentDistance>>
    /\ UNCHANGED obsVars
    /\ UNCHANGED utilVars

(***************************************************************************)
(* Specifications                                                          *)
(***************************************************************************)
\* random outcomes of route generation used in the application model
AppFactors == {1000}
AppAngles == {1}

Next ==
    \/ FetchLocationOk
    \/ FetchLocationFail
    \/ handleDistanceSubmit_noLocation
    \/ \E d \in SubmitDistances : handleDistanceSubmit_target(d)
    \/ \E d \in SubmitDistances : handleDistanceSubmit_routes(d, AppFactors, AppAngles)
    \/ \E id \in 0..(DefaultNumRoutes - 1) : handleRouteSelect(id)
    \/ StartSelectedRoute
    \/ handleStopRun
    \/ Tick
    \/ Render
    \/ LoadToken
    \/ initializeMap_ok(Origin)
    \/ initializeMap_error
    \/ \E h \in 0..MaxWatchHandle, p \in Positions : WatchCallback(h, p)
    \/ Unmount

Spec == Init /\ [][Next]_vars

(***************************************************************************)
(* Route synthesis on its own: one call of the geometric                   *)
(* generateRouteOptions from the origin, its result left in routes         *)
(***************************************************************************)
MaxNumRoutes == 3     \* numRoutes ranges over 1..MaxNumRoutes

\* target distances of 0.1, 1.2 and 1.4 miles: 3 and 4 waypoints
GenDistances == {100, 1200, 1400}

GenerateRoutes(distance, numRoutes) ==
    /\ routes = <<>>
    /\ \E draws \in [1..numRoutes -> RandomDraws(distance, VariationFactors, Angles)] :
          routes' = generateRouteOptions(Origin.lat, Origin.lng, distance,
                                         numRoutes, draws)
    /\ UNCHANGED <<currentLocation, fetchLocation, activeRouteId, showRoutePanel,
                   isRunningMode, targetDistance, currentDistance, runningDuration,
                   hasReachedTarget, timerRef, timers, renderPending, mounted, toastError>>
    /\ UNCHANGED mapVars
    /\ UNCHANGED obsVars
    /\ UNCHANGED utilVars

NextGen == \E d \in GenDistances, n \in 1..MaxNumRoutes : GenerateRoutes(d, n)

SpecGen == Init /\ [][NextGen]_vars

(***************************************************************************)
(* locationUtils on its own: calls of formatDistance and calculateDistance *)
(***************************************************************************)
\* formatDistance with the boundary value 0.1 rendered as feet
formatDistance_inclusive(distance) ==
    IF distance <= 100
    THEN ToString((distance * 5280 + 500) \div 1000) \o " ft"
    ELSE LET tenths == (distance + 50) \div 100
         IN  ToString(tenths \div 10) \o "." \o ToString(tenths % 10) \o " mi"

\* formatDistance(distance) for a distance in thousandths of a mile:
\* Math.round(distance * 5280) is the floor of distance * 5.28 + 0.5, and
\* distance.toFixed(1) is the nearest tenth, printed with one decimal digit
formatDistance(distance) ==
    IF distance < 100
    THEN ToString((distance * 5280 + 500) \div 1000) \o " ft"
    ELSE LET tenths == (distance + 50) \div 100
         IN  ToString(tenths \div 10) \o "." \o ToString(tenths % 10) \o " mi"

MaxFormat == 2400     \* formatDistance is called with distances up to 2.4 miles

\* every thousandth up to 0.13 miles and every 0.005 miles above; a distance
\* of at least 0.1 miles that lies halfway between two tenths is left out:
\* toFixed(1) then depends on the binary representation of the number
FormatInputs ==
    { d \in 0..MaxFormat : (d <= 130 \/ d % 5 = 0) /\ ~(d >= 100 /\ d % 100 = 50) }

\* latitudes of the points calculateDistance is called with
GeoLatitudes == {0 - 100, 0, 3, 7, 45, 100, 1000}

CallFormatDistance(distance) ==
    /\ call' = [fn |-> "formatDistance", args |-> <<distance>>, outcome |-> "returned",
                result |-> formatDistance(distance)]
    /\ UNCHANGED <<indexVars, mapVars, obsVars, svc, distanceInput>>

CallCalculateDistance(lat1, lat2) ==
    /\ call' = [fn |-> "calculateDistance",
                args |-> <<lat1, Origin.lng, lat2, Origin.lng>>,
                outcome |-> "returned",
                result |-> calculateDistance(lat1, Origin.lng, lat2, Origin.lng)]
    /\ UNCHANGED <<indexVars, mapVars, obsVars, svc, distanceInput>>

NextGeodesy ==
    \/ \E d \in FormatInputs : CallFormatDistance(d)
    \/ \E lat1 \in GeoLatitudes, lat2 \in GeoLatitudes : CallCalculateDistance(lat1, lat2)

SpecGeodesy == Init /\ [][NextGeodesy]_vars

(***************************************************************************)
(* The geometric generateRouteOptions called with any arguments            *)
(***************************************************************************)
MaxBatch == 4         \* numRoutes ranges over 0..MaxBatch

\* target distances of -0.1, 0, 0.1 and 1.2 miles
BatchDistances == {0 - 100, 0, 100, 1200}

\* every hop of these batches goes north
BatchAngles == {1}

\* the function has no throw statement and calls nothing that throws, so
\* every call returns
CallGenerateRouteOptions(distance, numRoutes) ==
    /\ \E draws \in [1..numRoutes -> RandomDraws(distance, VariationFactors, BatchAngles)] :
          call' = [fn |-> "generateRouteOptions", args |-> <<distance, numRoutes>>,
                   outcome |-> "returned",
                   result |-> generateRouteOptions(Origin.lat, Origin.lng, distance,
                                                   numRoutes, draws)]
    /\ UNCHANGED <<indexVars, mapVars, obsVars, svc, distanceInput>>

NextBatch ==
    \E d \in BatchDistances, n \in 0..MaxBatch : CallGenerateRouteOptions(d, n)

SpecBatch == Init /\ [][NextBatch]_vars

(***************************************************************************)
(* Service-assisted route synthesizer: one call of the asynchronous        *)
(* generateRouteOptions, a step per response of the directions provider    *)
(***************************************************************************)
MaxSvcRoutes == 2     \* numRoutes ranges over 1..MaxSvcRoutes
MaxAttempts == 4      \* cap on the nested calls of fetchRouteFromMapbox for one route

\* target distances of 0.4 and 1 mile, on either side of the 0.5 of line 101
SvcDistances == {400, 1000}

\* 0.85 + Math.random() * 0.3, in thousandths
SvcFactors == {850, 1000, 1149}

\* the ways a request fails: fetch rejects, the status is not ok, or the
\* payload has no routes
Failures == {"rejected", "notOk", "noRoutes"}

\* the geometries the provider answers with: walking routes along the
\* meridian through the origin, from the requested start
OutboundLegs ==
    { <<Origin, [lat |-> 45, lng |-> Origin.lng]>>,
      <<Origin, [lat |-> 20, lng |-> Origin.lng], [lat |-> 45, lng |-> Origin.lng]>> }
ReturnLegs(from) ==
    { <<from, Origin>>, <<from, [lat |-> 30, lng |-> Origin.lng], Origin>> }

\* the values localStorage holds for mapbox_token: none, or a saved token
StoredTokens == {"", "pk.saved"}

\* localStorage.getItem('mapbox_token') || 'YOUR_MAPBOX_TOKEN_HERE'
mapboxToken(storedToken) ==
    IF storedToken = "" THEN "YOUR_MAPBOX_TOKEN_HERE" ELSE storedToken

\* a request of the call number attempt for route i, as the provider sees it
Request(s, attempt, leg) ==
    [route |-> s.i, attempt |-> attempt, leg |-> leg,
     accessToken |-> mapboxToken(s.storedToken)]

svcAwaited_pending(s, leg) == s

\* the awaited fetch of the innermost call settles (lines 41 and 66)
svcAwaited(s, leg) ==
    [s EXCEPT !.inFlight = @ \ {Request(s, Len(s.attempts), leg)}]

\* a call of fetchRouteFromMapbox up to its first await (line 41): the
\* outbound request towards directionBias at 0.45 * targetDistance is in flight
svcFetch(s, distance, directionBias) ==
    [s EXCEPT !.pc = "outbound",
              !.attempts = Append(@, [directionBias |-> directionBias,
                                      targetDistance |-> distance,
                                      error |-> ""]),
              !.points = <<>>,
              !.inFlight = @ \cup {Request(s, Len(s.attempts) + 1, "outbound")}]

\* the catch block of line 88 in the innermost call: the recursive call of
\* line 96.  A call of fetchRouteFromMapbox never rejects (every statement
\* that can throw is inside the try, and the catch block ends in a return or
\* in this recursive call), so the handlers of lines 97 and 105 are never
\* entered.
svcCatch(s, error) ==
    LET failed == s.attempts[Len(s.attempts)]
    IN  svcFetch([s EXCEPT !.attempts[Len(s.attempts)].error = error],
                 failed.targetDistance, failed.directionBias + 90)

\* the top of the for loop (line 147) at index s.i
svcLoop(s, factor) ==
    IF s.i < s.numRoutes
    THEN svcFetch([s EXCEPT !.attempts = <<>>], (s.targetDistance * factor) \div 1000,
                  (s.i * 360) \div s.numRoutes)
    ELSE [s EXCEPT !.pc = "done"]

routePointsAccepted_nonEmpty(routePoints) == Len(routePoints) > 0

\* if (routePoints.length > 2)
routePointsAccepted(routePoints) == Len(routePoints) > 2

\* fetchRouteFromMapbox resolved with routePoints: every nested call returns
\* the value of the call it awaits; then lines 166-185, i++ and the next pass
\* of the loop
svcResolved(s, routePoints, factor) ==
    LET route == [id |-> s.i,
                  points |-> routePoints,
                  distance |-> toFixed2(pathDistance(routePoints), 1),
                  description |-> descriptions[(s.i % Len(descriptions)) + 1],
                  color |-> colors[(s.i % Len(colors)) + 1]]
    IN  svcLoop([s EXCEPT !.routes = IF routePointsAccepted(routePoints)
                                      THEN Append(@, route) ELSE @,
                           !.returned = routePoints,
                           !.points = <<>>,
                           !.i = @ + 1],
                factor)

\* generateRouteOptions(Origin.lat, Origin.lng, distance, numRoutes)
SvcCall(distance, numRoutes, storedToken, factor) ==
    /\ svc.pc = "idle"
    /\ svc' = svcLoop([SvcIdle EXCEPT !.targetDistance = distance,
                                      !.numRoutes = numRoutes,
                                      !.storedToken = storedToken], factor)
    /\ UNCHANGED <<indexVars, mapVars, obsVars, call, distanceInput>>

\* the outbound request fails (lines 41-53): the catch block
SvcOutboundFailed(failure) ==
    /\ svc.pc = "outbound"
    /\ Len(svc.attempts) < MaxAttempts
    /\ svc' = svcCatch(svcAwaited(svc, "outbound"), failure)
    /\ UNCHANGED <<indexVars, mapVars, obsVars, call, distanceInput>>

\* the outbound request succeeds (lines 56-62): the return request is sent
SvcOutboundOk(coordinates) ==
    /\ svc.pc = "outbound"
    /\ svc' = [svcAwaited(svc, "outbound") EXCEPT
                  !.pc = "return",
                  !.points = coordinates,
                  !.inFlight = @ \cup {Request(svc, Len(svc.attempts), "return")}]
    /\ UNCHANGED <<indexVars, mapVars, obsVars, call, distanceInput>>

\* the fetch of the return request rejects (line 66): the catch block
SvcReturnRejected ==
    /\ svc.pc = "return"
    /\ Len(svc.attempts) < MaxAttempts
    /\ svc' = svcCatch(svcAwaited(svc, "return"), "return rejected")
    /\ UNCHANGED <<indexVars, mapVars, obsVars, call, distanceInput>>

\* the return response is not ok or has no routes (lines 70 and 73): the
\* outbound points are returned as they are (line 87)
SvcReturnSkipped(failure, factor) ==
    /\ svc.pc = "return"
    /\ svc' = svcResolved(svcAwaited(svc, "return"), svc.points, factor)
    /\ UNCHANGED <<indexVars, mapVars, obsVars, call, distanceInput>>

\* the return response has a route (lines 73-84): its points after the first
\* are appended
SvcReturnOk(coordinates, factor) ==
    /\ svc.pc = "return"
    /\ coordinates \in ReturnLegs(svc.points[Len(svc.points)])
    /\ svc' = svcResolved(svcAwaited(svc, "return"), svc.points \o Tail(coordinates), factor)
    /\ UNCHANGED <<indexVars, mapVars, obsVars, call, distanceInput>>

NextSvc ==
    \/ \E d \in SvcDistances, n \in 1..MaxSvcRoutes, t \in StoredTokens, f \in SvcFactors :
          SvcCall(d, n, t, f)
    \/ \E failure \in Failures : SvcOutboundFailed(failure)
    \/ \E coordinates \in OutboundLegs : SvcOutboundOk(coordinates)
    \/ SvcReturnRejected
    \/ \E failure \in Failures \ {"rejected"}, f \in SvcFactors : SvcReturnSkipped(failure, f)
    \/ \E outbound \in OutboundLegs, f \in SvcFactors :
          \E coordinates \in ReturnLegs(outbound[Len(outbound)]) : SvcReturnOk(coordinates, f)

SpecSvc == Init /\ [][NextSvc]_vars

(***************************************************************************)
(* DistanceInput on its own: text input, slider, mode toggle and submit    *)
(***************************************************************************)
\* min={0.1} and max={10} of the number field and of the slider, the bounds
\* of the clamp in handleInputChange
minDistance == 100
maxDistance == 10000

\* step={0.1} of the slider
sliderStep == 100

\* what the user types into the number field
TextInputs == {"", "abc", "-1", "0", "0.05", "0.1", "2.5", "10", "10.001", "20"}

\* parseFloat(e.target.value) for the texts above, in thousandths; NaN for
\* a text that does not start with a number
parseFloat(text) ==
    CASE text = "-1"     -> [isNaN |-> FALSE, value |-> 0 - 1000]
      [] text = "0"      -> [isNaN |-> FALSE, value |-> 0]
      [] text = "0.05"   -> [isNaN |-> FALSE, value |-> 50]
      [] text = "0.1"    -> [isNaN |-> FALSE, value |-> 100]
      [] text = "2.5"    -> [isNaN |-> FALSE, value |-> 2500]
      [] text = "10"     -> [isNaN |-> FALSE, value |-> 10000]
      [] text = "10.001" -> [isNaN |-> FALSE, value |-> 10001]
      [] text = "20"     -> [isNaN |-> FALSE, value |-> 20000]
      [] OTHER           -> [isNaN |-> TRUE, value |-> 0]

Min(a, b) == IF a <= b THEN a ELSE b

clamp_lowerOnly(value) == Max(value, minDistance)

\* Math.min(Math.max(value, 0.1), 10)
clamp(value) == Min(Max(value, minDistance), maxDistance)

\* the values the slider reports: min, min + step, ... up to max
SliderValues ==
    { v \in minDistance..maxDistance : (v - minDistance) % sliderStep = 0 }

handleInputChange(text) ==
    /\ LET value == parseFloat(text)
       IN  distanceInput' =
               [distanceInput EXCEPT
                   !.text = text,
                   !.distance = IF ~value.isNaN /\ value.value > 0
                                THEN clamp(value.value) ELSE @]
    /\ UNCHANGED <<indexVars, mapVars, obsVars, call, svc>>

handleSliderChange(value) ==
    /\ distanceInput' = [distanceInput EXCEPT !.text = "", !.distance = value]
    /\ UNCHANGED <<indexVars, mapVars, obsVars, call, svc>>

toggleMode ==
    /\ distanceInput' = [distanceInput EXCEPT !.isTargetMode = ~@]
    /\ UNCHANGED <<indexVars, mapVars, obsVars, call, svc>>

\* onDistanceSubmit(distance, isTargetMode)
handleSubmit ==
    /\ distanceInput' = [distanceInput EXCEPT
                            !.submitted = <<distanceInput.distance,
                                            distanceInput.isTargetMode>>]
    /\ UNCHANGED <<indexVars, mapVars, obsVars, call, svc>>

NextInput ==
    \/ \E text \in TextInputs : handleInputChange(text)
    \/ \E value \in SliderValues : handleSliderChange(value)
    \/ toggleMode
    \/ handleSubmit

SpecInput == Init /\ [][NextInput]_vars

(***************************************************************************)
(* Properties                                                              *)
(***************************************************************************)
Handles == 0..MaxWatchHandle

\* C1: within one tracking session the target-reached notification (vibration
\* and toast) fires at most once, whatever the order of samples, ticks and
\* re-renders.
C1_TargetReachedAtMostOnce == notifyCount <= 1

\* C2: while a session stays active, neither accumulatedDistance nor the
\* currentDistance reported to the session controller decreases in any step.
C2_DistanceNeverDecreases ==
    [][(isRunningMode /\ isRunningMode') =>
          /\ accumulatedDistance' >= accumulatedDistance
          /\ currentDistance' >= currentDistance]_vars

\* the segment the session's tracker owes for a sample: 0 for the first sample
\* of the session, else the distance from the session's previous sample
SessionSegment(position) ==
    IF refLast = NoPoint THEN 0
    ELSE calculateDistance(refLast.lat, refLast.lng, position.lat, position.lng)

\* C3: in a session whose segments are all < 0.1 miles the accumulated distance
\* after the N-th sample is the sum of the N-1 segments between the session's
\* consecutive samples: it is 0 at session start, every sample adds exactly its
\* segment (the first one 0), and nothing else changes it.
C3_AccumulatedIsSumOfSegments ==
    /\ [][(~isRunningMode /\ isRunningMode') => accumulatedDistance' = 0]_vars
    /\ [][\A h \in Handles, p \in Positions :
            (isRunningMode /\ WatchCallback(h, p) /\ SessionSegment(p) < 100) =>
                accumulatedDistance' = accumulatedDistance + SessionSegment(p)]_vars
    /\ [][(isRunningMode /\ isRunningMode'
            /\ ~(\E h \in Handles, p \in Positions : WatchCallback(h, p))) =>
                accumulatedDistance' = accumulatedDistance]_vars

\* C4: a sample whose segment from lastPosition is >= 0.1 miles (exactly 0.1
\* included) leaves accumulatedDistance unchanged and still becomes the new
\* lastPosition, the baseline of the next segment.
C4_JumpRejectedBaselineAdvanced ==
    [][\A h \in Handles, p \in Positions :
         (/\ WatchCallback(h, p)
          /\ lastPosition # NoPoint
          /\ calculateDistance(lastPosition.lat, lastPosition.lng, p.lat, p.lng) >= 100) =>
             /\ accumulatedDistance' = accumulatedDistance
             /\ lastPosition' = p]_vars

\* a jump of exactly 0.1 miles was rejected after 0.05 miles had been accumulated
C4_Witness ==
    /\ segmentDistance = 100
    /\ accumulatedDistance = 50
    /\ lastPosition = [lat |-> 100, lng |-> Origin.lng]

\* C5: the start of every tracking session leaves the tracker with
\* accumulated = 0 and lastPosition = none, so that no earlier position is the
\* baseline of the session's first segment.
C5_TrackerResetAtSessionStart ==
    [][(~isRunningMode /\ isRunningMode') =>
          /\ accumulatedDistance' = 0
          /\ lastPosition' = NoPoint]_vars

\* C6: at most one interval timer is live and none is live outside running
\* mode; the elapsed duration grows by exactly 1 per tick during a session and
\* does not change while no session is active.
C6_SingleTimer ==
    /\ [](Cardinality(timers) <= 1 /\ (~isRunningMode => timers = {}))
    /\ [][(isRunningMode /\ isRunningMode') =>
            runningDuration' \in {runningDuration, runningDuration + 1}]_vars
    /\ [][(~isRunningMode /\ ~isRunningMode') => runningDuration' = runningDuration]_vars

\* two sessions were run and ended; the second one ticked and its timer is gone
C6_Witness ==
    /\ session = 2
    /\ ~isRunningMode
    /\ runningDuration = 1
    /\ timers = {}
    /\ timerRef = NoHandle

\* C7: a sample callback that updates currentDistance or fires target-reached
\* belongs to the subscription of the session that is active: none runs after
\* stop-run, and none of an earlier session runs in a later one.
C7_NoCallbackOutsideItsSession ==
    [][\A h \in Handles, p \in Positions :
         (/\ WatchCallback(h, p)
          /\ (currentDistance' # currentDistance \/ notifyCount' # notifyCount)) =>
             /\ isRunningMode
             /\ watches[h].session = session]_vars

\* C8: at most one geolocation watch is live, and none is live once tracking
\* is off or the map is torn down, whatever handle watchPosition returned.
C8_WatchesCancelled ==
    /\ Cardinality(DOMAIN watches) <= 1
    /\ (~isRunningMode \/ ~map \/ ~mounted) => DOMAIN watches = {}

\* C9: every route of the geometric synthesizer has at least 4 points and
\* starts and ends exactly at the origin.
C9_RouteIsClosedLoop ==
    \A k \in 1..Len(routes) :
        LET points == routes[k].points
        IN  /\ Len(points) >= 4
            /\ points[1] = Origin
            /\ points[Len(points)] = Origin

\* a batch with a 4-point and a 5-point route whose walks ended away from the origin
C9_Witness ==
    /\ \E k \in 1..Len(routes) :
          /\ Len(routes[k].points) = 4
          /\ routes[k].points[3] # Origin
    /\ \E k \in 1..Len(routes) :
          /\ Len(routes[k].points) = 5
          /\ routes[k].points[4] # Origin

\* C10: the distance field of every synthesized route is the sum of the
\* great-circle distances between the consecutive entries of its points.
C10_DistanceRecomputedFromPoints ==
    \A k \in 1..Len(routes) : routes[k].distance = pathDistance(routes[k].points)

\* C11: a call generateRouteOptions(origin, D, count) of the geometric
\* synthesizer returns exactly count routes, with pairwise distinct ids; route
\* i (0-based) has the colour and the description at index i mod 3 of the
\* palettes, and the colours of a batch of three are pairwise distinct.
C11_BatchCountIdsPalette ==
    call.fn = "generateRouteOptions" =>
        LET batch == call.result
            count == call.args[2]
        IN  /\ Len(batch) = count
            /\ \A j \in 1..Len(batch), k \in 1..Len(batch) :
                  j # k => batch[j].id # batch[k].id
            /\ \A k \in 1..Len(batch) :
                  /\ batch[k].color = colors[((k - 1) % 3) + 1]
                  /\ batch[k].description = descriptions[((k - 1) % 3) + 1]
            /\ count = 3 =>
                  \A j \in 1..3, k \in 1..3 : j # k => batch[j].color # batch[k].color

\* a batch of four routes: the fourth has the colour and description of the first
C11_Witness ==
    /\ call.fn = "generateRouteOptions"
    /\ call.args[2] = 4
    /\ Len(call.result) = 4
    /\ call.result[4].id = 3
    /\ call.result[4].color = "#1EAEDB"
    /\ call.result[4].description = call.result[1].description

\* C15: a call of the geometric generateRouteOptions with a target distance
\* that is not positive, or with a count below 1, throws a validation error
\* and produces no routes.
C15_InvalidInputFailsFast ==
    (call.fn = "generateRouteOptions" /\ (call.args[1] <= 0 \/ call.args[2] < 1)) =>
        /\ call.outcome = "threw"
        /\ call.result = <<>>

\* C16: once the initial location fetch has failed, currentLocation stays
\* null, every distance submission takes the error branch, and no step changes
\* the mode, the routes, the selected route, the target, the timer or the
\* distance state: the app is never in running mode and has no routes.
C16_NoRunWithoutLocation ==
    /\ [](fetchLocation = "failed" =>
            /\ currentLocation = NoPoint
            /\ \A isTargetDistance \in BOOLEAN :
                  handleDistanceSubmit_branch(currentLocation, isTargetDistance) = "error"
            /\ ~isRunningMode
            /\ routes = <<>>
            /\ timers = {})
    /\ [][fetchLocation = "failed" =>
            UNCHANGED <<isRunningMode, routes, activeRouteId, targetDistance, timerRef,
                        timers, currentDistance, runningDuration, hasReachedTarget>>]_vars
    /\ [][(fetchLocation = "failed" /\ handleDistanceSubmit_noLocation) =>
            toastError' = "Location not available"]_vars

\* a distance was submitted after the location fetch failed
C16_Witness ==
    /\ fetchLocation = "failed"
    /\ toastError = "Location not available"
    /\ mounted

\* C17: formatDistance(d) is the integer nearest to d * 5280 followed by
\* " ft" when d < 0.1, and otherwise the tenth nearest to d, written with one
\* decimal digit, followed by " mi"; 0.1 renders as "0.1 mi", 0.05 as
\* "264 ft" and 2.345 as "2.3 mi".
C17_FormatDistance ==
    call.fn = "formatDistance" =>
        LET d == call.args[1]
            feet == CHOOSE n \in 0..528 : 2 * Abs(n * 1000 - d * 5280) <= 1000
            tenths == CHOOSE t \in 0..((d \div 100) + 1) : 2 * Abs(t * 100 - d) < 100
        IN  /\ d < 100 => call.result = ToString(feet) \o " ft"
            /\ d >= 100 => call.result = ToString(tenths \div 10) \o "."
                                           \o ToString(tenths % 10) \o " mi"
            /\ d = 50 => call.result = "264 ft"
            /\ d = 100 => call.result = "0.1 mi"
            /\ d = 2345 => call.result = "2.3 mi"

\* formatDistance was called with the boundary value 0.1
C17_Witness ==
    /\ call.fn = "formatDistance"
    /\ call.args = <<100>>
    /\ call.result = "0.1 mi"

\* C18: calculateDistance(a, b) = calculateDistance(b, a), and the distance
\* from a point to itself is 0.
C18_DistanceSymmetric ==
    call.fn = "calculateDistance" =>
        LET lat1 == call.args[1]
            lon1 == call.args[2]
            lat2 == call.args[3]
            lon2 == call.args[4]
        IN  /\ call.result = calculateDistance(lat2, lon2, lat1, lon1)
            /\ (lat1 = lat2 /\ lon1 = lon2) => call.result = 0
            /\ calculateDistance(lat1, lon1, lat1, lon1) = 0

\* calculateDistance was called with a point and a point to the south of it
C18_Witness ==
    /\ call.fn = "calculateDistance"
    /\ call.args[3] < call.args[1]
    /\ call.result > 0

LadderAttempts == 3

\* C13: one fetchRouteFromMapbox of the loop makes a bounded number of
\* outbound requests, at most the three of the ladder, whatever the provider
\* answers.
C13_BoundedOutboundRequests == Len(svc.attempts) <= LadderAttempts

\* C14: the returned routes are in index order, and a step in which the last
\* attempt of the ladder for route i fails leaves the routes as they are,
\* resolves the fetch with the origin alone and moves the loop on to route
\* i + 1.
C14_FailedRouteOmittedAlone ==
    /\ [](\A j \in 1..Len(svc.routes), k \in 1..Len(svc.routes) :
            j < k => svc.routes[j].id < svc.routes[k].id)
    /\ [][(/\ Len(svc.attempts) = LadderAttempts
           /\ \/ \E failure \in Failures : SvcOutboundFailed(failure)
              \/ SvcReturnRejected)
          => /\ svc'.routes = svc.routes
             /\ svc'.returned = <<Origin>>
             /\ svc'.i = svc.i + 1]_vars

\* C19: the attempts for route i follow the ladder: (bias, D) with
\* bias = i * 360 / numRoutes degrees, then (bias + 90, D), then
\* (bias + 180, 0.7 * D), and there is no fourth attempt.
C19_RetryLadder ==
    LET a == svc.attempts
    IN  /\ Len(a) <= LadderAttempts
        /\ Len(a) >= 1 => a[1].directionBias = (svc.i * 360) \div svc.numRoutes
        /\ Len(a) >= 2 => /\ a[2].directionBias = a[1].directionBias + 90
                          /\ a[2].targetDistance = a[1].targetDistance
        /\ Len(a) >= 3 => /\ a[3].directionBias = a[1].directionBias + 180
                          /\ a[3].targetDistance = (a[1].targetDistance * 7) \div 10

\* C20: every polyline of more than one point that fetchRouteFromMapbox
\* resolves with, and so every route pushed, is a closed loop: it starts at
\* the origin, ends at the origin, has a point in between and repeats no
\* point at the joint of its two legs.
C20_ReturnedPolylineIsClosedLoop ==
    LET closed(points) ==
            /\ Len(points) >= 3
            /\ points[1] = Origin
            /\ points[Len(points)] = Origin
            /\ \A k \in 1..(Len(points) - 1) : points[k] # points[k + 1]
    IN  /\ Len(svc.returned) > 1 => closed(svc.returned)
        /\ \A k \in 1..Len(svc.routes) : closed(svc.routes[k].points)

\* C21: during a service-assisted generateRouteOptions call at most one
\* request to the directions provider is in flight, and it belongs to the
\* route the loop is at: no request of route i + 1 is sent while a request of
\* route i is unsettled.
C21_OneRequestInFlight ==
    /\ Cardinality(svc.inFlight) <= 1
    /\ \A request \in svc.inFlight :
          /\ request.route = svc.i
          /\ request.attempt = Len(svc.attempts)
    /\ svc.pc \in {"idle", "done"} => svc.inFlight = {}

\* the first request of route 1 is in flight after route 0 was pushed, and
\* the return request of a retried call of route 0 is in flight
C21_Witness ==
    \/ /\ svc.i = 1
       /\ Len(svc.routes) = 1
       /\ \E request \in svc.inFlight :
             request.route = 1 /\ request.attempt = 1 /\ request.leg = "outbound"
    \/ /\ svc.i = 0
       /\ \E request \in svc.inFlight : request.attempt = 2 /\ request.leg = "return"

\* C22: when no credential is stored, a service-assisted generateRouteOptions
\* call sends no request to the directions provider.
C22_NoCredentialNoRequest ==
    (svc.pc # "idle" /\ svc.storedToken = "") =>
        /\ svc.inFlight = {}
        /\ svc.attempts = <<>>

\* C23: after every sample processed in running mode the reached flag agrees
\* with the tracker: it is true exactly if it was true before, or the sample
\* is an accepted sample of the session (its segment from the session's
\* previous sample is < 0.1 miles) and the accumulated distance has reached
\* the target.
C23_ReachedFlagAgreesWithTracker ==
    [][\A h \in Handles, p \in Positions :
         (isRunningMode /\ WatchCallback(h, p)) =>
             hasReachedTarget' = (\/ hasReachedTarget
                                  \/ /\ SessionSegment(p) < 100
                                     /\ accumulatedDistance' >= targetDistance)]_vars

\* C24: the reached flag goes from true to false only in a step that starts
\* a new session; within a session, and after it has ended, it stays true.
C24_ReachedFlagMonotone ==
    [][(hasReachedTarget /\ ~hasReachedTarget') =>
          (~isRunningMode /\ isRunningMode' /\ session' = session + 1)]_vars

\* the target was reached, the flag survived a re-render with a sample after
\* it, and the session is still running
C24_Witness ==
    /\ isRunningMode
    /\ hasReachedTarget
    /\ notifyCount >= 1
    /\ ~renderPending
    /\ \E h \in DOMAIN watches : watches[h].hasReachedTarget

\* C25: in running mode the target distance is > 0, it is set in the step
\* that enters running mode and no step changes it while running mode lasts.
C25_TargetSetOnceAtStart ==
    /\ [](isRunningMode => targetDistance > 0)
    /\ [][(isRunningMode /\ isRunningMode') => targetDistance' = targetDistance]_vars
    /\ [][targetDistance' # targetDistance => (~isRunningMode /\ isRunningMode')]_vars

\* a session with a tick, a sample and a re-render behind it, target unchanged
C25_Witness ==
    /\ isRunningMode
    /\ targetDistance = 100
    /\ runningDuration = 1
    /\ currentDistance > 0
    /\ ~renderPending

\* C26: a click on Start Selected Route is the step handleDistanceSubmit
\* takes for the selected route's distance as the target: target =
\* route.distance, distance 0, elapsed 0, flag false, running mode on, one
\* live timer, and every other variable (so every later sample as well)
\* treated alike.
C26_StartRouteIsTargetSubmit ==
    [][StartSelectedRoute =>
          \E k \in 1..Len(routes) :
              /\ routes[k].id = activeRouteId
              /\ handleDistanceSubmit_target(routes[k].distance)
              /\ targetDistance' = routes[k].distance
              /\ currentDistance' = 0
              /\ runningDuration' = 0
              /\ ~hasReachedTarget'
              /\ isRunningMode'
              /\ Cardinality(timers') = 1]_vars

\* a second session started on the second route, after a first session that
\* left elapsed time and a reached target behind
C26_Witness ==
    /\ isRunningMode
    /\ session = 2
    /\ Len(routes) > 0
    /\ activeRouteId = 1
    /\ targetDistance = routes[2].distance
    /\ runningDuration = 0
    /\ currentDistance = 0
    /\ ~hasReachedTarget
    /\ Cardinality(timers) = 1

\* C27: every sample delivered in running mode takes the branch that calls
\* onLocationUpdate (a segment was computed and it is < 0.1 miles, lines
\* 242-257), and the controller's distance is the accumulated distance after
\* the sample.
C27_EverySampleUpdates ==
    [][(isRunningMode /\ \E h \in Handles, p \in Positions : WatchCallback(h, p)) =>
          /\ segmentDistance' # NoDistance
          /\ isReasonable(segmentDistance')
          /\ currentDistance' = accumulatedDistance']_vars

\* C28: calculateDistance returns the great-circle distance without rounding
\* it to hundredths: the result is the true distance to the nearest
\* thousandth of a mile, and two different points are never at distance 0.
C28_DistanceUnrounded ==
    call.fn = "calculateDistance" =>
        LET lat1 == call.args[1]
            lat2 == call.args[3]
        IN  /\ 2 * Abs(call.result * 690000 - Abs(lat2 - lat1) * 690936) <= 690000
            /\ lat1 # lat2 => call.result > 0

\* C29: a geometric route for the adjusted distance d has the points origin,
\* n hop points, origin with n = max(3, floor(3 * d)), and every hop has the
\* length d / n.
C29_RouteHasNHops ==
    \A k \in 1..Len(routes) :
        LET points == routes[k].points
            d == routes[k].distance
            n == Max(3, (d * 3) \div 1000)
        IN  /\ Len(points) = n + 2
            /\ points[1] = Origin
            /\ points[Len(points)] = Origin
            /\ \A j \in 1..n :
                  j + 1 <= Len(points) =>
                      Abs(points[j + 1].lat - points[j].lat) = d \div n

\* C30: in running mode, once the effects of the last render have run, a
\* position watch is live.
C30_WatchActiveWhileRunning ==
    (mounted /\ isRunningMode /\ ~renderPending) => DOMAIN watches # {}

\* C31: whenever the route list is not empty, activeRouteId is the id of one
\* of its routes, and a click on Start Selected Route starts a session whose
\* target is the distance of that route.
C31_ActiveRouteInList ==
    /\ [](Len(routes) > 0 => \E k \in 1..Len(routes) : routes[k].id = activeRouteId)
    /\ [][StartSelectedRoute =>
            /\ isRunningMode'
            /\ session' = session + 1
            /\ \E k \in 1..Len(routes) :
                  /\ routes[k].id = activeRouteId
                  /\ targetDistance' = routes[k].distance]_vars

\* the third route is selected in the list, after a session that was started
\* and stopped
C31_Witness ==
    /\ ~isRunningMode
    /\ session >= 1
    /\ Len(routes) = 3
    /\ activeRouteId = 2
    /\ routes[3].id = activeRouteId

\* C32: the distance DistanceInput holds, and the distance of every
\* onDistanceSubmit call it makes, is within [0.1, 10] miles.
C32_SubmittedDistanceInRange ==
    /\ distanceInput.distance >= minDistance
    /\ distanceInput.distance <= maxDistance
    /\ distanceInput.submitted # <<>> =>
          /\ distanceInput.submitted[1] >= minDistance
          /\ distanceInput.submitted[1] <= maxDistance
          /\ distanceInput.submitted[1] > 0

\* "20" was typed and the clamped value submitted as a target, and then an
\* invalid text was typed that left the distance alone
C32_Witness ==
    /\ distanceInput.text \in {"", "abc", "-1", "0"}
    /\ distanceInput.text # ""
    /\ distanceInput.distance = maxDistance
    /\ distanceInput.submitted = <<maxDistance, TRUE>>

=============================================================================
